---- MODULE Spec2Model ----
(***************************************************************************)
(* Model of the Visa MCP server: the mutually-authenticated VisaClient     *)
(* (src/src/visa-client.ts) and the thirteen MCP tool handlers that wrap   *)
(* it (src/unnamed/part_000).                                              *)
(*                                                                         *)
(* JavaScript values are modelled as tagged records so that truthiness     *)
(* (`a || b`, `if (x)`), optional chaining (`a?.b`) and default parameters *)
(* behave as they do in the source.                                        *)
(***************************************************************************)
EXTENDS Integers, Sequences, FiniteSets, TLC

(***************************************************************************)
(* Bounds of the model.                                                    *)
(***************************************************************************)
\* number of tool invocations that may be in flight at once (SpecConc)
MaxCalls == 2
\* largest number of ATMs in an upstream atmList
MaxAtms == 2
\* number of GET /mcp connections opened in a run (SpecSse)
MaxConns == 3
\* milliseconds that pass in a run (SpecSse)
MaxTime == 2

(***************************************************************************)
(* JavaScript values.                                                      *)
(***************************************************************************)
Undefined == [t |-> "undefined"]
Null == [t |-> "null"]
Str(s) == [t |-> "string", v |-> s]
Num(n) == [t |-> "number", v |-> n]
Obj(r) == [t |-> "object", v |-> r]
Arr(q) == [t |-> "array", v |-> q]

\* undefined or null
IsNullish(x) == x.t \in {"undefined", "null"}

\* ToBoolean: what `if (x)`, `x || y` and `x && y` test
Truthy(x) ==
    CASE x.t = "undefined" -> FALSE
      [] x.t = "null" -> FALSE
      [] x.t = "string" -> x.v # ""
      [] x.t = "number" -> x.v # 0
      [] OTHER -> TRUE

\* a || b
Or(a, b) == IF Truthy(a) THEN a ELSE b

\* a default parameter value applies only to undefined
Default(a, d) == IF a = Undefined THEN d ELSE a

\* x.f on a value that is not null or undefined
Get(x, f) == IF x.t = "object" /\ f \in DOMAIN x.v THEN x.v[f] ELSE Undefined

\* x?.f
Chain(x, f) == IF IsNullish(x) THEN Undefined ELSE Get(x, f)

\* String(x), as a template literal `${x}` and Number.prototype.toString do
ToStr(x) ==
    CASE x.t = "undefined" -> "undefined"
      [] x.t = "null" -> "null"
      [] x.t = "string" -> x.v
      [] x.t = "number" -> ToString(x.v)
      [] x.t = "array" -> "[array]"
      [] OTHER -> "[object Object]"

\* A text is a sequence of parts: literal characters, or the JSON rendering
\* of a value that has one.
Lit(s) == [k |-> "lit", s |-> s]
Json(d) == [k |-> "json", d |-> d]

\* JSON.stringify(data, null, 2): undefined has no rendering, null renders
\* as the four characters null
JSONstringify(d) ==
    CASE d.t = "undefined" -> <<Lit("undefined")>>
      [] d.t = "null" -> <<Lit("null")>>
      [] OTHER -> <<Json(d)>>

(***************************************************************************)
(* State.                                                                  *)
(***************************************************************************)
VARIABLES
    files,        \* the file system: status of the cert, key and ca paths
    processEnv,   \* process.env: VISA_ENV and VISA_CA_PATH
    config,       \* VisaClient.config
    baseUrl,      \* VisaClient.baseUrl
    client,       \* VisaClient.client: 0 is null, n > 0 the n-th axios instance
    initialized,  \* VisaClient.initialized
    created,      \* number of axios instances (and mTLS agents) constructed
    initFailed,   \* some initialize() call has found the cert or key missing
    calls,        \* the tool invocations: idle, pending on HTTP, or done
    now,          \* Date.now(), in milliseconds since the server started
    opened,       \* number of GET /mcp requests handled so far
    connections,  \* the SSE connections that are open
    transports    \* the transports map: session id -> transport

vars ==
    <<files, processEnv, config, baseUrl, client, initialized, created,
      initFailed, calls, now, opened, connections, transports>>
clientVars == <<client, initialized, created, initFailed>>
configVars == <<processEnv, config, baseUrl>>
sseVars == <<now, opened, connections, transports>>

FileNames == {"cert", "key", "ca"}
FileStatus == {"missing", "unreadable", "ok"}

\* fs.existsSync(path)
existsSync(fs, f) == fs[f] # "missing"

\* fs.readFileSync(path) returns (TRUE) or throws (FALSE)
readFileSync(fs, f) == fs[f] = "ok"

Environments == {"sandbox", "production"}

SandboxUrl == "https://sandbox.api.visa.com"
ProductionUrl == "https://api.visa.com"

\* the values VISA_ENV may have: unset, empty, the two declared tags, another
EnvTags ==
    {Undefined, Str(""), Str("sandbox"), Str("production"), Str("staging")}

CaPaths == {Undefined, Str("./certs/ca.pem")}

\* the configuration the server builds from process.env
visaClientConfig(penv) ==
    [environment |-> Or(penv.VISA_ENV, Str("sandbox")),
     caPath |-> penv.VISA_CA_PATH]

\* new VisaClient(config): the base URL chosen by the constructor
constructor(cfg) ==
    IF cfg.environment = Str("sandbox") THEN SandboxUrl ELSE ProductionUrl

ConfigError ==
    "Visa API client not initialized. Please configure your certificates in the certs/ directory."
ReadError == "EACCES: permission denied, open"

\* new Error(message), and the errors axios rejects with
Error(msg) == Obj([message |-> Str(msg)])

(***************************************************************************)
(* VisaClient.initialize and VisaClient.getClient.  Both are synchronous,  *)
(* so each runs as one step.  The result carries the new values of the     *)
(* fields, the files read by this call, and what the call did.             *)
(***************************************************************************)
InitResult(c, i, n, reads, outcome) ==
    [client |-> c, initialized |-> i, created |-> n, reads |-> reads,
     outcome |-> outcome]

\* lines 44-68: read the files, build the agent and the axios instance, set
\* the flag; a readFileSync that throws leaves the fields as they were
createChannel(c, i, n, cfg, fs) ==
    IF ~readFileSync(fs, "cert")
        THEN InitResult(c, i, n, <<"cert">>, "threw")
    ELSE IF ~readFileSync(fs, "key")
        THEN InitResult(c, i, n, <<"cert", "key">>, "threw")
    ELSE IF Truthy(cfg.caPath) /\ existsSync(fs, "ca")
        THEN IF ~readFileSync(fs, "ca")
             THEN InitResult(c, i, n, <<"cert", "key", "ca">>, "threw")
             ELSE InitResult(n + 1, TRUE, n + 1, <<"cert", "key", "ca">>, "created")
    ELSE InitResult(n + 1, TRUE, n + 1, <<"cert", "key">>, "created")

\* initialize() without the check of the key file
initializeNoKeyCheck(c, i, n, cfg, fs) ==
    IF i THEN InitResult(c, i, n, <<>>, "noop")
    ELSE IF ~existsSync(fs, "cert") THEN InitResult(c, i, n, <<>>, "noCert")
    ELSE createChannel(c, i, n, cfg, fs)

\* initialize() without the early return of an initialized client
initializeNoGuard(c, i, n, cfg, fs) ==
    IF ~existsSync(fs, "cert") THEN InitResult(c, i, n, <<>>, "noCert")
    ELSE IF ~existsSync(fs, "key") THEN InitResult(c, i, n, <<>>, "noKey")
    ELSE createChannel(c, i, n, cfg, fs)

\* initialize() that remembers a failed attempt: the flag is set although a
\* file is missing
initializeFlagOnFailure(c, i, n, cfg, fs) ==
    IF i THEN InitResult(c, i, n, <<>>, "noop")
    ELSE IF ~existsSync(fs, "cert") THEN InitResult(c, TRUE, n, <<>>, "noCert")
    ELSE IF ~existsSync(fs, "key") THEN InitResult(c, TRUE, n, <<>>, "noKey")
    ELSE createChannel(c, i, n, cfg, fs)

\* initialize() that constructs the channel and forgets to set the flag
initializeFlagNeverSet(c, i, n, cfg, fs) ==
    IF i THEN InitResult(c, i, n, <<>>, "noop")
    ELSE IF ~existsSync(fs, "cert") THEN InitResult(c, i, n, <<>>, "noCert")
    ELSE IF ~existsSync(fs, "key") THEN InitResult(c, i, n, <<>>, "noKey")
    ELSE [createChannel(c, i, n, cfg, fs) EXCEPT !.initialized = FALSE]

initialize(c, i, n, cfg, fs) ==
    IF i THEN InitResult(c, i, n, <<>>, "noop")
    ELSE IF ~existsSync(fs, "cert") THEN InitResult(c, i, n, <<>>, "noCert")
    ELSE IF ~existsSync(fs, "key") THEN InitResult(c, i, n, <<>>, "noKey")
    ELSE createChannel(c, i, n, cfg, fs)

\* getClient(): the initialize() result, and the error thrown (Undefined when
\* the handle is returned)
getClient(c, i, n, cfg, fs) ==
    LET r == initialize(c, i, n, cfg, fs) IN
    [init |-> r,
     thrown |-> IF r.outcome = "threw" THEN Error(ReadError)
                ELSE IF r.client = 0 THEN Error(ConfigError)
                ELSE Undefined]

(***************************************************************************)
(* The VisaClient operations.  Each builds its request and then calls      *)
(* getClient() once; the request it would send is what is modelled here.   *)
(***************************************************************************)
Request(verb, path, body) == [verb |-> verb, path |-> path, body |-> body]

\* { ...a, ...b }
Spread(a, b) ==
    [k \in DOMAIN a \cup DOMAIN b |-> IF k \in DOMAIN b THEN b[k] ELSE a[k]]

helloWorld == Request("GET", "/vdp/helloworld", Undefined)

getExchangeRate(sourceCurrencyCode, destinationCurrencyCode, sourceAmount) ==
    Request("POST", "/forexrates/v2/foreignexchangerates",
            Obj([sourceCurrencyCode |-> sourceCurrencyCode,
                 destinationCurrencyCode |-> destinationCurrencyCode,
                 sourceAmount |-> Str(ToStr(sourceAmount))]))

findNearbyAtms(latitude, longitude, distanceArg, distanceUnitArg) ==
    LET distance == Default(distanceArg, Num(5))
        distanceUnit == Default(distanceUnitArg, Str("km"))
    IN Request("POST", "/globalatmlocator/v1/localatms/atmLocator",
         Obj([wsRequestHeaderV2 |->
                  Obj([requestTs |-> Str("new Date().toISOString()"),
                       applicationId |-> Str("VISA_MCP")]),
              requestData |->
                  Obj([location |->
                           Obj([geocodes |-> Obj([latitude |-> latitude,
                                                  longitude |-> longitude])]),
                       options |->
                           Obj([range |-> Obj([distance |-> distance,
                                               distanceUnit |-> distanceUnit]),
                                findFilters |-> Arr(<<>>),
                                sort |-> Obj([primary |-> Str("distance"),
                                              direction |-> Str("asc")])])])]))

vsmSearch(pan) == Request("POST", "/vsm/v1/search", Obj([pan |-> pan]))

vsmMerchantDetails(transactionId) ==
    Request("POST", "/vsm/v1/merchantdetails",
            Obj([transactionId |-> transactionId]))

vsmAddMerchant(pan, merchantId, reason) ==
    Request("POST", "/vsm/v1/addmerchant",
            Obj([pan |-> pan, merchantId |-> merchantId,
                 reason |-> Or(reason, Str("Subscription cancellation"))]))

vsmCancel(stopId) == Request("POST", "/vsm/v1/cancel", Obj([stopId |-> stopId]))

vspsSearchInstructions(pan) ==
    Request("POST", "/vsps/v1/stopinstructions/search", Obj([pan |-> pan]))

vspsSearchEligible(pan, daysArg) ==
    LET days == Default(daysArg, Num(90))
    IN Request("POST", "/vsps/v1/eligibletransactions/search",
               Obj([pan |-> pan, searchPeriodDays |-> days]))

\* vspsAddStop that sets the field of the level whatever its value
vspsAddStopUnchecked(pan, level, merchantId, mcc) ==
    LET payload ==
            IF level = Str("merchant")
            THEN [pan |-> pan, level |-> level, merchantId |-> merchantId]
            ELSE IF level = Str("mcc")
            THEN [pan |-> pan, level |-> level, mcc |-> mcc]
            ELSE [pan |-> pan, level |-> level]
    IN Request("POST", "/vsps/v1/stopinstructions/add", Obj(payload))

vspsAddStop(pan, level, merchantId, mcc) ==
    LET payload ==
            IF level = Str("merchant") /\ Truthy(merchantId)
            THEN [pan |-> pan, level |-> level, merchantId |-> merchantId]
            ELSE IF level = Str("mcc") /\ Truthy(mcc)
            THEN [pan |-> pan, level |-> level, mcc |-> mcc]
            ELSE [pan |-> pan, level |-> level]
    IN Request("POST", "/vsps/v1/stopinstructions/add", Obj(payload))

vspsCancelStop(stopId) ==
    Request("POST", "/vsps/v1/stopinstructions/cancel", Obj([stopId |-> stopId]))

vspsUpdateStop(stopId, updates) ==
    Request("POST", "/vsps/v1/stopinstructions/update",
            Obj(Spread([stopId |-> stopId], updates)))

vspsExtendStop(stopId, newEndDate) ==
    Request("POST", "/vsps/v1/stopinstructions/extend",
            Obj([stopId |-> stopId, newEndDate |-> newEndDate]))

(***************************************************************************)
(* The tool handlers.  A handler calls one client method inside `try`,     *)
(* awaits it, and turns the data, or the error caught, into an envelope.   *)
(***************************************************************************)
Tools ==
    {"hello_world", "get_exchange_rate", "find_nearby_atms", "vsm_search",
     "vsm_merchant_details", "vsm_add_merchant", "vsm_cancel",
     "vsps_search_instructions", "vsps_search_eligible", "vsps_add_stop",
     "vsps_cancel_stop", "vsps_update_stop", "vsps_extend_stop"}

Envelope(text) == [content |-> <<[type |-> "text", text |-> text]>>]

formatResponse(data, error) ==
    IF Truthy(error)
    THEN Envelope(<<Lit("Error: "), Lit(ToStr(error))>>)
    ELSE Envelope(JSONstringify(data))

\* error.message || error.response?.data?.message
errorMessageTransportFirst(error) ==
    Or(Get(error, "message"),
       Chain(Chain(Get(error, "response"), "data"), "message"))

\* error.response?.data?.message || error.message
errorMessage(error) ==
    Or(Chain(Chain(Get(error, "response"), "data"), "message"),
       Get(error, "message"))

\* catch (error: any) { return formatResponse(null, ...) }
catch(error) == formatResponse(Null, errorMessage(error))

\* the TypeError of reading property f of null or undefined
TypeError(x, f) ==
    Error("Cannot read properties of " \o ToStr(x) \o " (reading '" \o f \o "')")

\* const updates = {}; if (merchantId) ...; if (notes) ...
updatesOf(merchantId, notes) ==
    [k \in (IF Truthy(merchantId) THEN {"merchantId"} ELSE {})
           \cup (IF Truthy(notes) THEN {"notes"} ELSE {})
       |-> IF k = "merchantId" THEN merchantId ELSE notes]

\* the client method a handler calls, and the request that method builds
ClientCall(method, request) == [method |-> method, request |-> request]

toolCall(tool, a) ==
    CASE tool = "hello_world" -> ClientCall("helloWorld", helloWorld)
      [] tool = "get_exchange_rate" ->
            ClientCall("getExchangeRate",
                getExchangeRate(a.sourceCurrency, a.destinationCurrency,
                                a.sourceAmount))
      [] tool = "find_nearby_atms" ->
            ClientCall("findNearbyAtms",
                findNearbyAtms(a.latitude, a.longitude,
                               Or(a.distance, Num(5)), Undefined))
      [] tool = "vsm_search" -> ClientCall("vsmSearch", vsmSearch(a.pan))
      [] tool = "vsm_merchant_details" ->
            ClientCall("vsmMerchantDetails", vsmMerchantDetails(a.transactionId))
      [] tool = "vsm_add_merchant" ->
            ClientCall("vsmAddMerchant",
                vsmAddMerchant(a.pan, a.merchantId, a.reason))
      [] tool = "vsm_cancel" -> ClientCall("vsmCancel", vsmCancel(a.stopId))
      [] tool = "vsps_search_instructions" ->
            ClientCall("vspsSearchInstructions", vspsSearchInstructions(a.pan))
      [] tool = "vsps_search_eligible" ->
            ClientCall("vspsSearchEligible",
                vspsSearchEligible(a.pan, Or(a.days, Num(90))))
      [] tool = "vsps_add_stop" ->
            ClientCall("vspsAddStop",
                vspsAddStop(a.pan, a.level, a.merchantId, a.mcc))
      [] tool = "vsps_cancel_stop" ->
            ClientCall("vspsCancelStop", vspsCancelStop(a.stopId))
      [] tool = "vsps_update_stop" ->
            ClientCall("vspsUpdateStop",
                vspsUpdateStop(a.stopId, updatesOf(a.merchantId, a.notes)))
      [] tool = "vsps_extend_stop" ->
            ClientCall("vspsExtendStop", vspsExtendStop(a.stopId, a.newEndDate))

\* get_exchange_rate, after the await
exchangeRateText(a, data) ==
    LET rate == Or(Get(data, "conversionRate"), Str("N/A"))
        converted == Or(Get(data, "destinationAmount"), Str("N/A"))
    IN <<Lit("Exchange Rate: " \o ToStr(rate) \o "\n" \o ToStr(a.sourceAmount)
             \o " " \o ToStr(a.sourceCurrency) \o " = " \o ToStr(converted)
             \o " " \o ToStr(a.destinationCurrency) \o "\n\nFull response:\n")>>
       \o JSONstringify(data)

\* the number of ATMs the summary lists
SummaryLimit == 10

\* one line of the ATM summary; i counts from 0
atmLine(atm, i) ==
    ToString(i + 1) \o ". " \o ToStr(Or(Get(atm, "atmName"), Str("ATM")))
    \o " - " \o ToStr(Or(Chain(Get(atm, "address"), "street"), Str("Unknown")))
    \o ", " \o ToStr(Or(Chain(Get(atm, "address"), "city"), Str("")))
    \o " (" \o ToStr(Or(Get(atm, "distance"), Str("?"))) \o " km)"

\* atms.slice(0, 10).map(...).join("\n")
RECURSIVE joinLines(_, _)
joinLines(atms, i) ==
    IF i >= Len(atms) \/ i >= SummaryLimit THEN ""
    ELSE atmLine(atms[i + 1], i)
         \o (IF i + 1 >= Len(atms) \/ i + 1 >= SummaryLimit THEN "" ELSE "\n")
         \o joinLines(atms, i + 1)

\* the ATM text without the `|| "No ATMs found"` of the summary
atmTextNoFallback(data) ==
    LET atms == Or(Chain(Get(data, "responseData"), "atmList"), Arr(<<>>))
        summary == joinLines(atms.v, 0)
    IN <<Lit("Found "), Lit(ToString(Len(atms.v))), Lit(" ATMs nearby:\n\n"),
         Lit(summary)>>

\* find_nearby_atms, after the await
atmText(data) ==
    LET atms == Or(Chain(Get(data, "responseData"), "atmList"), Arr(<<>>))
        summary == joinLines(atms.v, 0)
    IN <<Lit("Found "), Lit(ToString(Len(atms.v))), Lit(" ATMs nearby:\n\n"),
         Lit(ToStr(Or(Str(summary), Str("No ATMs found"))))>>

\* the rest of the `try` block once the client call has resolved with data
toolResolved(tool, a, data) ==
    CASE tool = "get_exchange_rate" ->
            IF IsNullish(data) THEN catch(TypeError(data, "conversionRate"))
            ELSE Envelope(exchangeRateText(a, data))
      [] tool = "find_nearby_atms" ->
            IF IsNullish(data) THEN catch(TypeError(data, "responseData"))
            ELSE Envelope(atmText(data))
      [] OTHER -> formatResponse(data, Undefined)

\* the handler once the client call has rejected with error
toolRejected(tool, a, error) == catch(error)

(***************************************************************************)
(* Inputs: tool arguments as the zod schemas admit them, upstream          *)
(* responses, and the errors axios rejects with.                           *)
(***************************************************************************)
OptStr(v) == {Undefined, Str(""), Str(v)}
OptNum(d, v) == {Undefined, Num(0), Num(d), Num(v)}
Pan == Str("4111111111111111")
Levels == {Str("merchant"), Str("mcc"), Str("pan")}

ToolArgs(tool) ==
    CASE tool = "hello_world" -> {[none |-> Undefined]}
      [] tool = "get_exchange_rate" ->
            {[sourceCurrency |-> Str("USD"), destinationCurrency |-> Str("EUR"),
              sourceAmount |-> Num(100)]}
      [] tool = "find_nearby_atms" ->
            {[latitude |-> Num(37), longitude |-> Num(-122), distance |-> d] :
                d \in OptNum(5, 7)}
      [] tool \in {"vsm_search", "vsps_search_instructions"} -> {[pan |-> Pan]}
      [] tool = "vsm_merchant_details" -> {[transactionId |-> Str("T1")]}
      [] tool = "vsm_add_merchant" ->
            {[pan |-> Pan, merchantId |-> Str("M1"), reason |-> r] :
                r \in OptStr("fraud")}
      [] tool \in {"vsm_cancel", "vsps_cancel_stop"} -> {[stopId |-> Str("S1")]}
      [] tool = "vsps_search_eligible" ->
            {[pan |-> Pan, days |-> d] : d \in OptNum(90, 30)}
      [] tool = "vsps_add_stop" ->
            {[pan |-> Pan, level |-> l, merchantId |-> m, mcc |-> c] :
                l \in Levels, m \in OptStr("M1"), c \in OptStr("5411")}
      [] tool = "vsps_update_stop" ->
            {[stopId |-> Str("S1"), merchantId |-> m, notes |-> n] :
                m \in OptStr("M1"), n \in OptStr("note")}
      [] tool = "vsps_extend_stop" ->
            {[stopId |-> Str("S1"), newEndDate |-> Str("2027-01-01")]}

Invocations == UNION {{[tool |-> t, args |-> a] : a \in ToolArgs(t)} : t \in Tools}

\* the invocations of the concurrent specification: one per kind of handler
ConcInvocations ==
    {[tool |-> "hello_world", args |-> [none |-> Undefined]],
     [tool |-> "vsm_search", args |-> [pan |-> Pan]]}

\* ATMs of an upstream atmList
Atms ==
    {Obj([atmName |-> Str("Visa ATM"),
          address |-> Obj([street |-> Str("1 Main St"), city |-> Str("Austin")]),
          distance |-> Num(2)]),
     Obj([placeId |-> Str("P1")])}

AtmLists == UNION {[1..n -> Atms] : n \in 0..MaxAtms}

\* response.data of a 2xx response
Datas(tool) ==
    CASE tool = "find_nearby_atms" ->
            {Null, Obj([wsStatus |-> Str("ok")]),
             Obj([responseData |-> Obj([totalCount |-> Num(0)])])}
            \cup {Obj([responseData |-> Obj([atmList |-> Arr(l)])]) : l \in AtmLists}
      [] tool = "get_exchange_rate" ->
            {Null, Obj([status |-> Str("ok")]),
             Obj([conversionRate |-> Str("0.92"),
                  destinationAmount |-> Str("92.00")])}
      [] OTHER -> {Null, Obj([status |-> Str("ok")])}

\* a request that got no response: no `response` on the error; Node's
\* AggregateError of a refused dual-stack connect has an empty message
TransportErrors == {Error("connect ECONNREFUSED 127.0.0.1:443"), Error("")}

\* bodies of 4xx/5xx responses
ErrorBodies ==
    {Obj([message |-> Str("Invalid PAN")]), Obj([message |-> Str("")]),
     Obj([message |-> Obj([code |-> Num(9)])]), Obj([errorCode |-> Num(9)]),
     Str("")}

\* a 4xx/5xx response: axios rejects with its status message and the response
UpstreamErrors ==
    {Obj([message |-> Str("Request failed with status code 400"),
          response |-> Obj([status |-> Num(400), data |-> d])]) : d \in ErrorBodies}

Errors == TransportErrors \cup UpstreamErrors
ConcDatas == {Obj([status |-> Str("ok")])}
ConcErrors == {Error("connect ECONNREFUSED 127.0.0.1:443")}

(***************************************************************************)
(* Tool invocations.                                                       *)
(***************************************************************************)
Slots == 1..MaxCalls

IdleCall ==
    [state |-> "idle", tool |-> "", args |-> [none |-> Undefined],
     methods |-> <<>>, init |-> "", reads |-> <<>>, handle |-> 0,
     requests |-> 0, request |-> Undefined, result |-> Undefined,
     envelope |-> Undefined]

\* the handler up to its await: the client method builds its request and calls
\* getClient(), which throws (the handler catches and returns) or returns the
\* handle on which the one request is sent
invoked(inv, g) ==
    LET cc == toolCall(inv.tool, inv.args)
        base == [IdleCall EXCEPT !.tool = inv.tool, !.args = inv.args,
                                 !.methods = <<cc.method>>,
                                 !.init = g.init.outcome, !.reads = g.init.reads]
    IN IF g.thrown # Undefined
       THEN [base EXCEPT !.state = "done", !.result = [rejected |-> g.thrown],
                         !.envelope = toolRejected(inv.tool, inv.args, g.thrown)]
       ELSE [base EXCEPT !.state = "pending", !.handle = g.init.client,
                         !.requests = 1, !.request = cc.request]

\* the awaited request succeeded: the method returns response.data
resolved(call, data) ==
    [call EXCEPT !.state = "done", !.result = [resolved |-> data],
                 !.envelope = toolResolved(call.tool, call.args, data)]

\* a failed request is sent once more
rejectedRetry(call, error) == [call EXCEPT !.requests = call.requests + 1]

\* the awaited request failed: the method rethrows, the handler catches
rejected(call, error) ==
    [call EXCEPT !.state = "done", !.result = [rejected |-> error],
                 !.envelope = toolRejected(call.tool, call.args, error)]

(***************************************************************************)
(* Actions.                                                                *)
(***************************************************************************)
TypeOK ==
    /\ files \in [FileNames -> FileStatus]
    /\ config.environment.t = "string"
    /\ baseUrl \in {SandboxUrl, ProductionUrl}
    /\ client \in Nat /\ created \in Nat
    /\ initialized \in BOOLEAN /\ initFailed \in BOOLEAN
    /\ DOMAIN calls = Slots

\* the state once the module has been loaded, VISA_ENV being one of tags
InitWith(tags) ==
    /\ files \in [FileNames -> FileStatus]
    /\ processEnv \in [VISA_ENV : tags, VISA_CA_PATH : CaPaths]
    /\ config = visaClientConfig(processEnv)
    /\ baseUrl = constructor(config)
    /\ client = 0
    /\ initialized = FALSE
    /\ created = 0
    /\ initFailed = FALSE
    /\ calls = [s \in Slots |-> IdleCall]
    /\ now = 0
    /\ opened = 0
    /\ connections = {}
    /\ transports = [k \in {} |-> 0]

\* VISA_ENV holds one of the two tags VisaClientConfig declares
Init == InitWith({Str(e) : e \in Environments})

\* a tool is invoked
Invoke(s, inv) ==
    /\ calls[s].state = "idle"
    /\ LET g == getClient(client, initialized, created, config, files) IN
        /\ client' = g.init.client
        /\ initialized' = g.init.initialized
        /\ created' = g.init.created
        /\ initFailed' = (initFailed \/ g.init.outcome \in {"noCert", "noKey"})
        /\ calls' = [calls EXCEPT ![s] = invoked(inv, g)]
    /\ UNCHANGED <<files, configVars, sseVars>>

\* the upstream answers 2xx
Resolve(s, data) ==
    /\ calls[s].state = "pending"
    /\ calls' = [calls EXCEPT ![s] = resolved(calls[s], data)]
    /\ UNCHANGED <<files, configVars, clientVars, sseVars>>

\* the request fails: no response, or a 4xx/5xx response
Reject(s, error) ==
    /\ calls[s].state = "pending"
    /\ calls' = [calls EXCEPT ![s] = rejected(calls[s], error)]
    /\ UNCHANGED <<files, configVars, clientVars, sseVars>>

\* the envelope is handed back to the protocol layer
Return(s) ==
    /\ calls[s].state = "done"
    /\ calls' = [calls EXCEPT ![s] = IdleCall]
    /\ UNCHANGED <<files, configVars, clientVars, sseVars>>

\* the environment adds, removes or changes a certificate file
SetFile(f, st) ==
    /\ files[f] # st
    /\ files' = [files EXCEPT ![f] = st]
    /\ UNCHANGED <<configVars, clientVars, calls, sseVars>>

\* one tool invocation at a time, every tool, argument and response
Next ==
    \/ \E inv \in Invocations : Invoke(1, inv)
    \/ \E data \in Datas(calls[1].tool) : Resolve(1, data)
    \/ \E error \in Errors : Reject(1, error)
    \/ Return(1)
    \/ \E f \in FileNames, st \in FileStatus : SetFile(f, st)

Spec == Init /\ [][Next]_vars

\* up to MaxCalls invocations in flight at once
NextConc ==
    \/ \E s \in Slots, inv \in ConcInvocations : Invoke(s, inv)
    \/ \E s \in Slots, data \in ConcDatas : Resolve(s, data)
    \/ \E s \in Slots, error \in ConcErrors : Reject(s, error)
    \/ \E s \in Slots : Return(s)
    \/ \E f \in FileNames, st \in FileStatus : SetFile(f, st)

\* the concurrent specification starts from the default environment
InitConc == Init /\ config.environment = Str("sandbox")

SpecConc == InitConc /\ [][NextConc]_vars

\* VISA_ENV holds whatever the environment of the process gives it
InitEnv == InitWith(EnvTags)

\* the representative operations, one at a time
NextEnv ==
    \/ \E inv \in ConcInvocations : Invoke(1, inv)
    \/ \E data \in ConcDatas : Resolve(1, data)
    \/ \E error \in ConcErrors : Reject(1, error)
    \/ Return(1)
    \/ \E f \in FileNames, st \in FileStatus : SetFile(f, st)

SpecEnv == InitEnv /\ [][NextEnv]_vars

(***************************************************************************)
(* The SSE endpoint GET /mcp and the transports map.                       *)
(***************************************************************************)
\* Map.prototype.set
mapSet(m, k, v) == [x \in DOMAIN m \cup {k} |-> IF x = k THEN v ELSE m[x]]

\* Map.prototype.delete
mapDelete(m, k) == [x \in DOMAIN m \ {k} |-> m[x]]

\* Date.now().toString()
sessionIdAt(t) == ToString(t)

\* GET /mcp: a transport is made for the response and stored under the
\* session id; the close listener is registered for that id
Connect ==
    /\ opened < MaxConns
    /\ LET transport == opened + 1
           sessionId == sessionIdAt(now)
       IN /\ transports' = mapSet(transports, sessionId, transport)
          /\ connections' = connections \cup
                {[id |-> opened + 1, sessionId |-> sessionId,
                  transport |-> transport]}
    /\ opened' = opened + 1
    /\ UNCHANGED <<files, configVars, clientVars, calls, now>>

\* res.on("close"): the listener of connection c deletes its session id
Close(c) ==
    /\ c \in connections
    /\ transports' = mapDelete(transports, c.sessionId)
    /\ connections' = connections \ {c}
    /\ UNCHANGED <<files, configVars, clientVars, calls, now, opened>>

\* a millisecond passes
Tick ==
    /\ now < MaxTime
    /\ now' = now + 1
    /\ UNCHANGED <<files, configVars, clientVars, calls, opened, connections,
                   transports>>

\* the server with its certificates in place and the default configuration
InitSse ==
    /\ InitConc
    /\ files = [f \in FileNames |-> "ok"]
    /\ processEnv.VISA_CA_PATH = Undefined

NextSse ==
    \/ Connect
    \/ \E c \in connections : Close(c)
    \/ Tick
    \/ \E inv \in ConcInvocations : Invoke(1, inv)
    \/ \E data \in ConcDatas : Resolve(1, data)
    \/ Return(1)

SpecSse == InitSse /\ [][NextSse]_vars

(***************************************************************************)
(* Properties.                                                             *)
(***************************************************************************)
\* this step is the invocation of a tool in slot s
InvokeStep(s) == calls[s].state = "idle" /\ calls'[s].state # "idle"

\* this step is the failure of the request of the call in slot s
RejectStep(s) ==
    /\ calls[s].state = "pending"
    /\ calls'[s].state = "done"
    /\ "rejected" \in DOMAIN calls'[s].result

CertOrKeyMissing == files["cert"] = "missing" \/ files["key"] = "missing"

\* the certificate and key, and the CA file when one is configured and exists,
\* can be read
FilesUsable ==
    /\ files["cert"] = "ok"
    /\ files["key"] = "ok"
    /\ (Truthy(config.caPath) /\ files["ca"] # "missing" => files["ca"] = "ok")

ErrorText(msg) == <<Lit("Error: "), Lit(msg)>>
TextOf(envelope) == envelope.content[1].text
IsFailureEnvelope(envelope) ==
    /\ Len(envelope.content) = 1
    /\ Len(TextOf(envelope)) = 2
    /\ TextOf(envelope)[1] = Lit("Error: ")
    /\ TextOf(envelope)[2].k = "lit"

\* the call failed with the configuration error and sent nothing
ConfigFailure(call) ==
    /\ call.state = "done"
    /\ call.requests = 0
    /\ call.request = Undefined
    /\ call.result = [rejected |-> Error(ConfigError)]
    /\ call.envelope = Envelope(ErrorText(ConfigError))

\* C1 as stated: an operation called while the certificate or the key file is
\* missing fails with the configuration error and sends no HTTP request.
C1_MissingFilesAlwaysFail ==
    [][\A s \in Slots :
          InvokeStep(s) /\ CertOrKeyMissing => ConfigFailure(calls'[s])]_vars

\* C1 amended: an operation called while the certificate or the key file is
\* missing and no channel has been established yet fails with the
\* configuration error and sends no HTTP request, however often it is called.
C1_MissingFilesFailWhileUnready ==
    [][\A s \in Slots :
          InvokeStep(s) /\ CertOrKeyMissing /\ client = 0
              => ConfigFailure(calls'[s]) /\ client' = 0]_vars

\* C1 witness: extend-stop was called with the key file missing and has
\* failed with the configuration error, nothing sent
C1_Witness ==
    \E s \in Slots :
        /\ ConfigFailure(calls[s])
        /\ calls[s].tool = "vsps_extend_stop"
        /\ calls[s].init = "noKey"
        /\ CertOrKeyMissing

\* C2: the channel is constructed at most once, whatever the interleaving of
\* calls; every request, of concurrent first calls too, is sent on that one
\* handle; a call made with usable files leaves exactly one channel; and once
\* the client is initialized, initialize() reads no file, constructs nothing
\* and leaves the handle alone.
C2_ChannelConstructedOnce ==
    /\ [](/\ created <= 1
          /\ (client # 0 => client = 1 /\ created = 1)
          /\ \A s \in Slots : calls[s].requests > 0 => calls[s].handle = client)
    /\ [][\A s \in Slots :
             /\ (InvokeStep(s) /\ FilesUsable
                    => created' = 1 /\ client' = 1 /\ calls'[s].handle = 1)
             /\ (InvokeStep(s) /\ initialized
                    => /\ calls'[s].init = "noop"
                       /\ calls'[s].reads = <<>>
                       /\ UNCHANGED <<client, initialized, created>>)]_vars

\* C2 witness: two calls are in flight at once on the one handle, the first
\* having constructed it and the second having reused it
C2_Witness ==
    \E s1, s2 \in Slots :
        /\ s1 # s2
        /\ calls[s1].state = "pending" /\ calls[s2].state = "pending"
        /\ calls[s1].init = "created" /\ calls[s2].init = "noop"
        /\ calls[s1].handle = client /\ calls[s2].handle = client
        /\ created = 1

\* C3 as stated: once an initialization attempt has failed for a missing
\* certificate or key, the client never becomes ready.
C3_UnreadyForever == initFailed => client = 0 /\ ~initialized

\* C3 amended: while the client is unready every operation attempts the
\* initialization again; the attempt leaves the client unready while the
\* certificate or the key is missing, and makes it ready exactly when the
\* files can be read; nothing but an operation changes the handle.
C3_UnreadyUntilFilesAppear ==
    [][/\ \A s \in Slots :
            InvokeStep(s) /\ ~initialized
                => /\ calls'[s].init # "noop"
                   /\ (initialized' <=> FilesUsable)
                   /\ (client' # 0 <=> FilesUsable)
                   /\ (CertOrKeyMissing => calls'[s].init \in {"noCert", "noKey"})
       /\ ((\A s \in Slots : ~InvokeStep(s)) => UNCHANGED <<client, initialized>>)
      ]_vars

\* C3 witness: an attempt has failed for a missing file, and a later call has
\* constructed the channel
C3_Witness ==
    /\ initFailed
    /\ initialized
    /\ \E s \in Slots : calls[s].init = "created" /\ calls[s].state = "pending"

\* C10: the initialized flag is set exactly when the handle is non-null; an
\* initialization attempt that fails and a request that fails leave both
\* unchanged.
C10_FlagIffHandle ==
    /\ [](initialized <=> client # 0)
    /\ [][\A s \in Slots :
             /\ (InvokeStep(s) /\ calls'[s].init \in {"noCert", "noKey", "threw"}
                    => UNCHANGED <<client, initialized>>)
             /\ (RejectStep(s) => UNCHANGED <<client, initialized>>)]_vars

\* C10 witness: after a failed initialization attempt the client became
\* ready, and a request then failed: flag set, handle present
C10_Witness ==
    \E s \in Slots :
        /\ calls[s].state = "done"
        /\ calls[s].requests = 1
        /\ "rejected" \in DOMAIN calls[s].result
        /\ initFailed
        /\ initialized /\ client = 1

\* the client call of this finished invocation failed
CallFailed(call) == call.state = "done" /\ "rejected" \in DOMAIN call.result

\* C4: whenever the client call of a tool fails, the handler returns the
\* failure envelope, text 'Error: <message>', and never the success shape.
C4_FailureGivesErrorEnvelope ==
    \A s \in Slots :
        CallFailed(calls[s])
            => /\ IsFailureEnvelope(calls[s].envelope)
               /\ calls[s].envelope # formatResponse(Null, Undefined)

\* error.response.data.message of the error a call was rejected with
UpstreamMessage(error) == Get(Get(Get(error, "response"), "data"), "message")

\* the call was rejected with a 4xx/5xx response
UpstreamFailed(call) ==
    CallFailed(call) /\ Get(call.result.rejected, "response") # Undefined

\* C5 as stated: a message carried by the 4xx/5xx response is the message of
\* the failure envelope; a response that carries none gives error.message.
C5_UpstreamMessageVerbatim ==
    \A s \in Slots :
        UpstreamFailed(calls[s]) =>
            LET error == calls[s].result.rejected
                m == UpstreamMessage(error)
            IN IF m # Undefined
               THEN calls[s].envelope = Envelope(ErrorText(ToStr(m)))
               ELSE calls[s].envelope = Envelope(ErrorText(Get(error, "message").v))

\* C5 amended: a non-empty message string carried by the 4xx/5xx response is
\* the message of the failure envelope; a response whose message is absent or
\* empty gives error.message.
C5_NonEmptyUpstreamMessageVerbatim ==
    \A s \in Slots :
        UpstreamFailed(calls[s]) =>
            LET error == calls[s].result.rejected
                m == UpstreamMessage(error)
            IN /\ (m.t = "string" /\ m.v # ""
                    => calls[s].envelope = Envelope(ErrorText(m.v)))
               /\ (m = Undefined \/ m = Str("")
                    => calls[s].envelope
                         = Envelope(ErrorText(Get(error, "message").v)))

\* C5 witness: a tool whose request was answered 400 with the message
\* 'Invalid PAN' has returned 'Error: Invalid PAN'
C5_Witness ==
    \E s \in Slots :
        /\ UpstreamFailed(calls[s])
        /\ calls[s].tool = "vsm_search"
        /\ UpstreamMessage(calls[s].result.rejected) = Str("Invalid PAN")
        /\ calls[s].envelope = Envelope(ErrorText("Invalid PAN"))

\* C6: a tool invocation calls one client method; the method sends one
\* request when getClient() returns the handle and none when it throws; the
\* number of requests of a call never changes afterwards, so a failed
\* request is not sent again.
C6_OneCallOneRequest ==
    /\ [](\A s \in Slots :
            calls[s].state # "idle"
                => /\ Len(calls[s].methods) = 1
                   /\ calls[s].requests \in {0, 1}
                   /\ (calls[s].requests = 1 <=> calls[s].handle # 0)
                   /\ (calls[s].requests = 0 <=> calls[s].request = Undefined))
    /\ [][\A s \in Slots :
             /\ (InvokeStep(s)
                    => calls'[s].requests = IF client' # 0 THEN 1 ELSE 0)
             /\ (calls[s].state # "idle" /\ calls'[s].state # "idle"
                    => /\ calls'[s].requests = calls[s].requests
                       /\ calls'[s].methods = calls[s].methods)
             /\ (RejectStep(s) => calls'[s].requests = 1)]_vars

\* C6 witness: a request has failed and the call is done with one request
C6_Witness ==
    \E s \in Slots :
        /\ CallFailed(calls[s])
        /\ calls[s].requests = 1
        /\ calls[s].methods = <<"vspsCancelStop">>

\* the body of the request of a call that sent one
BodyOf(call) == call.request.body.v

\* C7: the body of a stop-instruction create has merchantId only for level
\* 'merchant' with a non-empty merchant id, mcc only for level 'mcc' with a
\* non-empty code, and no optional field that is null, undefined or empty; a
\* 'merchant' create without merchant id sends {pan, level} alone.
C7_AddStopBody ==
    \A s \in Slots :
        calls[s].tool = "vsps_add_stop" /\ calls[s].requests = 1 =>
            LET b == BodyOf(calls[s])
                a == calls[s].args
            IN /\ {"pan", "level"} \subseteq DOMAIN b
               /\ DOMAIN b \subseteq {"pan", "level", "merchantId", "mcc"}
               /\ b["pan"] = a.pan /\ b["level"] = a.level
               /\ ("merchantId" \in DOMAIN b
                     => /\ a.level = Str("merchant")
                        /\ a.merchantId.t = "string" /\ a.merchantId.v # ""
                        /\ b["merchantId"] = a.merchantId)
               /\ ("mcc" \in DOMAIN b
                     => /\ a.level = Str("mcc")
                        /\ a.mcc.t = "string" /\ a.mcc.v # ""
                        /\ b["mcc"] = a.mcc)
               /\ \A k \in DOMAIN b \ {"pan", "level"} :
                     b[k] \notin {Undefined, Null, Str("")}
               /\ (a.level = Str("merchant") /\ a.merchantId \in {Undefined, Str("")}
                     => DOMAIN b = {"pan", "level"})

\* C7 witness: a 'merchant' create without merchant id, but with an mcc, was
\* sent with the body {pan, level}
C7_Witness ==
    \E s \in Slots :
        /\ calls[s].tool = "vsps_add_stop" /\ calls[s].requests = 1
        /\ calls[s].args.level = Str("merchant")
        /\ calls[s].args.merchantId = Undefined
        /\ calls[s].args.mcc = Str("5411")
        /\ DOMAIN BodyOf(calls[s]) = {"pan", "level"}

\* range.distance of an ATM search body
DistanceSent(call) ==
    Get(Get(Get(Get(call.request.body, "requestData"), "options"), "range"),
        "distance")

\* C8: a search radius or search window the caller supplies is sent
\* unchanged; 5 and 90 are sent only for an absent argument.
C8_OptionalForwarded ==
    \A s \in Slots :
        /\ (calls[s].tool = "find_nearby_atms" /\ calls[s].requests = 1
              => DistanceSent(calls[s])
                   = IF calls[s].args.distance = Undefined THEN Num(5)
                     ELSE calls[s].args.distance)
        /\ (calls[s].tool = "vsps_search_eligible" /\ calls[s].requests = 1
              => BodyOf(calls[s])["searchPeriodDays"]
                   = IF calls[s].args.days = Undefined THEN Num(90)
                     ELSE calls[s].args.days)

\* the ATM search succeeded with a payload that lists no ATM
NoAtms(call) ==
    /\ call.state = "done" /\ call.tool = "find_nearby_atms"
    /\ "resolved" \in DOMAIN call.result
    /\ LET data == call.result.resolved IN
        /\ data.t = "object"
        /\ \/ Get(data, "responseData") = Undefined
           \/ Get(Get(data, "responseData"), "atmList") = Undefined
           \/ Get(Get(data, "responseData"), "atmList") = Arr(<<>>)

\* C9: a successful ATM search that lists no ATM returns the normal envelope
\* 'Found 0 ATMs nearby: No ATMs found', not an error envelope.
C9_NoAtmsFound ==
    \A s \in Slots :
        NoAtms(calls[s])
            => /\ calls[s].envelope
                    = Envelope(<<Lit("Found "), Lit("0"), Lit(" ATMs nearby:\n\n"),
                                 Lit("No ATMs found")>>)
               /\ ~IsFailureEnvelope(calls[s].envelope)

\* C9 witness: an ATM search answered with an empty atmList is done
C9_Witness ==
    \E s \in Slots :
        /\ NoAtms(calls[s])
        /\ calls[s].result.resolved
             = Obj([responseData |-> Obj([atmList |-> Arr(<<>>)])])
        /\ TextOf(calls[s].envelope)[4] = Lit("No ATMs found")

\* C12: the base URL is the production URL only when the environment tag is
\* exactly 'production'; an unset tag gives the sandbox URL; the base URL
\* never changes after construction.
C12_ProductionOnlyWhenTagged ==
    /\ [](/\ (baseUrl = ProductionUrl
                => processEnv.VISA_ENV = Str("production"))
          /\ (processEnv.VISA_ENV = Undefined => baseUrl = SandboxUrl))
    /\ [][baseUrl' = baseUrl]_vars

\* C11: whatever the interleaving of GET /mcp connections and closes, every
\* connection that is still open has its own transport registered in the
\* transports map; closing a connection removes that connection's entry and
\* no other.
C11_OpenConnectionsRegistered ==
    \A c \in connections :
        /\ c.sessionId \in DOMAIN transports
        /\ transports[c.sessionId] = c.transport

=============================================================================
